---- MODULE Spec2Model ----
\* A model of FastPython.py: the command-line driver main(), the six text
\* rewriters it dispatches to, and the syntax-tree decorator transformer.
\*
\* Representation of strings.  A string is a sequence of tokens (a file name
\* "a.py" is <<"a", ".py">>, a mode "3" is <<"3">>).  A text is what
\* str.split("\n") gives: a non-empty sequence of lines, the last of which is
\* the unterminated remainder ("x\n" is <<x, empty>>, "" is <<empty>>).  A line
\* is its leading blanks and its tokens, which one blank separates.
EXTENDS Integers, Sequences, FiniteSets, TLC

VARIABLES
    \* ---- main(): the driver ----
    pc,             \* the stage main() performs next
    argv,           \* sys.argv[1:] as the process was started
    filename,       \* main.filename
    method_choice,  \* main.method_choice
    run_flag,       \* main.run_flag
    code,           \* the text read from the file / given to the rewriter
    optimized_code, \* the rewriter's result
    new_filename,   \* main.new_filename
    disk,           \* the file system: file name -> text
    writes,         \* the files main() opened for writing, in order
    children,       \* the child processes spawned: their command lines
    child_rc,       \* the exit code of the child that ran
    stdout,         \* the messages printed
    exited,         \* the process has ended
    status,         \* its exit status
    \* ---- the environment ----
    unparse_depth,  \* deepest nesting ast_unparse regenerates without raising
    \* ---- repeated application of the transformer ----
    decorator,      \* the decorator name handed to the transformer
    previous,       \* the text before the last application
    applied         \* how many times the transformer has been applied

vars == <<pc, argv, filename, method_choice, run_flag, code, optimized_code,
          new_filename, disk, writes, children, child_rc, stdout, exited,
          status, unparse_depth, decorator, previous, applied>>

\* ------------------------------------------------------------------ bounds

MaxLines == 4
MaxArgs == 3
MaxApplied == 2

\* ------------------------------------------------------------------- texts

Line(ind, toks) == [ind |-> ind, toks |-> toks]

EmptyLine == Line(0, <<>>)

EmptyText == <<EmptyLine>>

\* a + b for the last line of a and the first line of b
JoinLines(a, b) ==
    IF a.toks = <<>> THEN Line(a.ind + b.ind, b.toks)
    ELSE Line(a.ind, a.toks \o b.toks)

\* s + t on strings holding newlines
Cat(s, t) ==
    SubSeq(s, 1, Len(s) - 1) \o <<JoinLines(s[Len(s)], t[1])>> \o Tail(t)

\* the string made of the given lines, each ended by a newline
Lines(ls) == ls \o EmptyText

\* a word of the text ends with the needle's first token
EndsWith(tok, word) ==
    \/ tok = word
    \/ word = "if" /\ tok = "elif"

\* needle in text, for a one-line needle given as its tokens
Contains(text, needle) ==
    \E i \in 1..Len(text) :
        \E j \in 0..(Len(text[i].toks) - Len(needle)) :
            /\ EndsWith(text[i].toks[j + 1], needle[1])
            /\ \A k \in 2..Len(needle) : text[i].toks[j + k] = needle[k]

\* ---------------------------------------------------------- ast.parse(code)

\* tokens that are no identifier or simple expression
Reserved ==
    {"def", "async", "class", "if", "elif", "from", "import",
     "@", "#", "(", "()", "():", ":", "=="}

IsName(tok) == tok \notin Reserved

\* the tokens of a line up to its comment
StripComment(toks) ==
    IF \E i \in 1..Len(toks) : toks[i] = "#"
    THEN SubSeq(toks, 1,
                (CHOOSE i \in 1..Len(toks) :
                    /\ toks[i] = "#"
                    /\ \A j \in 1..(i - 1) : toks[j] # "#") - 1)
    ELSE toks

\* the tokenizer: blank lines and comments yield no logical line
LogicalLines(text) ==
    LET stripped == [i \in 1..Len(text) |->
                        Line(text[i].ind, StripComment(text[i].toks))]
        HasCode(l) == l.toks # <<>>
    IN  SelectSeq(stripped, HasCode)

IsFunctionDef(l) ==
    Len(l.toks) = 3 /\ l.toks[1] = "def" /\ IsName(l.toks[2]) /\ l.toks[3] = "():"

IsAsyncFunctionDef(l) ==
    /\ Len(l.toks) = 4 /\ l.toks[1] = "async" /\ l.toks[2] = "def"
    /\ IsName(l.toks[3]) /\ l.toks[4] = "():"

IsClassDef(l) ==
    Len(l.toks) = 3 /\ l.toks[1] = "class" /\ IsName(l.toks[2]) /\ l.toks[3] = ":"

IsExpr(toks) ==
    \/ Len(toks) = 1 /\ IsName(toks[1])
    \/ Len(toks) = 3 /\ IsName(toks[1]) /\ toks[2] = "==" /\ IsName(toks[3])

IsIf(l) ==
    /\ Len(l.toks) >= 3 /\ l.toks[1] = "if" /\ l.toks[Len(l.toks)] = ":"
    /\ IsExpr(SubSeq(l.toks, 2, Len(l.toks) - 1))

IsDecorator(l) ==
    /\ Len(l.toks) \in {2, 3} /\ l.toks[1] = "@" /\ IsName(l.toks[2])
    /\ Len(l.toks) = 3 => l.toks[3] = "()"

IsSimple(l) ==
    \/ IsExpr(l.toks)
    \/ Len(l.toks) = 2 /\ l.toks[1] = "import" /\ IsName(l.toks[2])
    \/ /\ Len(l.toks) = 4 /\ l.toks[1] = "from" /\ IsName(l.toks[2])
       /\ l.toks[3] = "import" /\ IsName(l.toks[4])

IsCompound(l) ==
    IsFunctionDef(l) \/ IsAsyncFunctionDef(l) \/ IsClassDef(l) \/ IsIf(l)

\* syntax-tree nodes; every statement node has the same fields
Node(type, name, toks, decorator_list, body) ==
    [type |-> type, name |-> name, toks |-> toks,
     decorator_list |-> decorator_list, body |-> body]

Name(id) == [type |-> "Name", id |-> id]

Call(id) == [type |-> "Call", id |-> id]

DecoratorOf(l) == IF Len(l.toks) = 3 THEN Call(l.toks[2]) ELSE Name(l.toks[2])

HeaderNode(l, decs, body) ==
    IF IsFunctionDef(l) THEN Node("FunctionDef", l.toks[2], <<>>, decs, body)
    ELSE IF IsAsyncFunctionDef(l)
         THEN Node("AsyncFunctionDef", l.toks[3], <<>>, decs, body)
    ELSE IF IsClassDef(l) THEN Node("ClassDef", l.toks[2], <<>>, decs, body)
    ELSE Node("If", "", SubSeq(l.toks, 2, Len(l.toks) - 1), decs, body)

ParseFail == [ok |-> FALSE, nodes |-> <<>>, next |-> 0]

RECURSIVE ParseBlock(_, _, _)

\* one statement starting at logical line i of a block indented by ind
ParseStmt(LL, i, ind) ==
    LET h == CHOOSE j \in i..(Len(LL) + 1) :
                 /\ j = Len(LL) + 1 \/ ~IsDecorator(LL[j])
                 /\ \A k \in i..(j - 1) : IsDecorator(LL[k])
        decs == [k \in 1..(h - i) |-> DecoratorOf(LL[i + k - 1])]
    IN  IF h > Len(LL) THEN ParseFail
        ELSE IF \E k \in i..h : LL[k].ind # ind THEN ParseFail
        ELSE IF IsCompound(LL[h]) /\ (h > i => ~IsIf(LL[h]))
        THEN IF h + 1 > Len(LL) \/ LL[h + 1].ind <= ind THEN ParseFail
             ELSE LET b == ParseBlock(LL, h + 1, LL[h + 1].ind)
                  IN  IF ~b.ok THEN ParseFail
                      ELSE [ok |-> TRUE,
                            nodes |-> <<HeaderNode(LL[h], decs, b.nodes)>>,
                            next |-> b.next]
        ELSE IF h = i /\ IsSimple(LL[h])
        THEN [ok |-> TRUE,
              nodes |-> <<Node("Expr", "", LL[h].toks, <<>>, <<>>)>>,
              next |-> h + 1]
        ELSE ParseFail

\* the statements from logical line i on that are indented by exactly ind
ParseBlock(LL, i, ind) ==
    IF i > Len(LL) \/ LL[i].ind < ind
    THEN [ok |-> TRUE, nodes |-> <<>>, next |-> i]
    ELSE IF LL[i].ind > ind THEN ParseFail
    ELSE LET st == ParseStmt(LL, i, ind)
         IN  IF ~st.ok THEN ParseFail
             ELSE LET rest == ParseBlock(LL, st.next, ind)
                  IN  IF ~rest.ok THEN ParseFail
                      ELSE [ok |-> TRUE, nodes |-> st.nodes \o rest.nodes,
                            next |-> rest.next]

Module(body) == Node("Module", "", <<>>, <<>>, body)

\* ast.parse: ok is FALSE where it raises SyntaxError
ast_parse(text) ==
    LET LL == LogicalLines(text)
        r == ParseBlock(LL, 1, 0)
    IN  IF r.ok /\ r.next = Len(LL) + 1
        THEN [ok |-> TRUE, tree |-> Module(r.nodes)]
        ELSE [ok |-> FALSE, tree |-> Module(<<>>)]

\* ------------------------------------------------------- ast.unparse(tree)

IndentWidth == 4

RECURSIVE UnparseBody(_, _, _)

UnparseDecorator(dec, depth) ==
    Line(IndentWidth * depth,
         IF dec.type = "Call" THEN <<"@", dec.id, "()">> ELSE <<"@", dec.id>>)

UnparseHeader(node, depth) ==
    Line(IndentWidth * depth,
         IF node.type = "FunctionDef" THEN <<"def", node.name, "():">>
         ELSE IF node.type = "AsyncFunctionDef"
              THEN <<"async", "def", node.name, "():">>
         ELSE IF node.type = "ClassDef" THEN <<"class", node.name, ":">>
         ELSE <<"if">> \o node.toks \o <<":">>)

\* one statement written after the lines out
UnparseStmt(node, depth, out) ==
    IF node.type = "Expr" THEN out \o <<Line(IndentWidth * depth, node.toks)>>
    ELSE LET spaced == IF node.type # "If" /\ out # <<>>
                       THEN out \o <<EmptyLine>> ELSE out
             decs == [k \in 1..Len(node.decorator_list) |->
                         UnparseDecorator(node.decorator_list[k], depth)]
         IN  UnparseBody(node.body, depth + 1,
                         spaced \o decs \o <<UnparseHeader(node, depth)>>)

UnparseBody(body, depth, out) ==
    IF body = <<>> THEN out
    ELSE UnparseBody(Tail(body), depth, UnparseStmt(Head(body), depth, out))

Unparse(tree) ==
    LET out == UnparseBody(tree.body, 0, <<>>)
    IN  IF out = <<>> THEN EmptyText ELSE out

RECURSIVE Depth(_)

\* the nesting depth of a tree: 0 for a simple statement
Depth(node) ==
    IF node.body = <<>> THEN 0
    ELSE 1 + (CHOOSE d \in {Depth(node.body[i]) : i \in 1..Len(node.body)} :
                 \A i \in 1..Len(node.body) : Depth(node.body[i]) <= d)

\* ast_unparse raises on a tree nested deeper than the interpreter's stack
\* allows
ast_unparse(tree) ==
    IF Depth(tree) > unparse_depth
    THEN [ok |-> FALSE, text |-> EmptyText]
    ELSE [ok |-> TRUE, text |-> Unparse(tree)]

\* ------------------------------------------------ add_decorator_to_functions

RECURSIVE visit(_, _)

generic_visit(node, decorator_name) ==
    [node EXCEPT !.body = [i \in 1..Len(node.body) |->
                              visit(node.body[i], decorator_name)]]

\* mutant: the decorator is appended to the list (insert at the end)
visit_FunctionDef_appends(node, decorator_name) ==
    LET has_decorator ==
            \E i \in 1..Len(node.decorator_list) :
                /\ node.decorator_list[i].type = "Name"
                /\ node.decorator_list[i].id = decorator_name
        decorated ==
            IF ~has_decorator
            THEN [node EXCEPT !.decorator_list = @ \o <<Name(decorator_name)>>]
            ELSE node
    IN  generic_visit(decorated, decorator_name)

\* mutant: the decorator is inserted without the presence check
visit_FunctionDef_unchecked(node, decorator_name) ==
    generic_visit([node EXCEPT !.decorator_list = <<Name(decorator_name)>> \o @],
                  decorator_name)

\* mutant: the decorator list is overwritten, not inserted into
visit_FunctionDef_replaces(node, decorator_name) ==
    LET has_decorator ==
            \E i \in 1..Len(node.decorator_list) :
                /\ node.decorator_list[i].type = "Name"
                /\ node.decorator_list[i].id = decorator_name
        decorated ==
            IF ~has_decorator
            THEN [node EXCEPT !.decorator_list = <<Name(decorator_name)>>]
            ELSE node
    IN  generic_visit(decorated, decorator_name)

visit_FunctionDef(node, decorator_name) ==
    LET has_decorator ==
            \E i \in 1..Len(node.decorator_list) :
                /\ node.decorator_list[i].type = "Name"
                /\ node.decorator_list[i].id = decorator_name
        decorated ==
            IF ~has_decorator
            THEN [node EXCEPT !.decorator_list = <<Name(decorator_name)>> \o @]
            ELSE node
    IN  generic_visit(decorated, decorator_name)

\* NodeTransformer.visit: visit_<type> where the class defines it
visit(node, decorator_name) ==
    IF node.type = "FunctionDef" THEN visit_FunctionDef(node, decorator_name)
    ELSE generic_visit(node, decorator_name)

\* mutant: the except branches hand back an empty text
add_decorator_to_functions_no_fallback(text, decorator_name) ==
    LET parsed == ast_parse(text)
    IN  IF ~parsed.ok THEN EmptyText
        ELSE LET unparsed == ast_unparse(visit(parsed.tree, decorator_name))
             IN  IF ~unparsed.ok THEN EmptyText ELSE unparsed.text

add_decorator_to_functions(text, decorator_name) ==
    LET parsed == ast_parse(text)
    IN  IF ~parsed.ok THEN text
        ELSE LET unparsed == ast_unparse(visit(parsed.tree, decorator_name))
             IN  IF ~unparsed.ok THEN text ELSE unparsed.text

\* ---------------------------------------------------------- the rewriters

Comment(text) == Line(0, <<"#", text>>)

ensure_import(text, import_line) ==
    IF ~Contains(text, import_line)
    THEN Cat(Lines(<<Line(0, import_line)>>), text)
    ELSE text

sample_main ==
    Lines(<<Line(0, <<"def", "main", "():">>),
            Line(4, <<"#", "Main function of the program">>),
            Line(4, <<"pass">>),
            EmptyLine,
            Line(0, <<"if", "__name__", "==", "'__main__'", ":">>),
            Line(4, <<"import", "multiprocessing">>),
            Line(4, <<"p", "=", "multiprocessing.Process(target=main)">>),
            Line(4, <<"p.start()">>),
            Line(4, <<"p.join()">>),
            EmptyLine>>)

\* mutant: the banner is put in front of the synthesized block
optimize_multiprocessing_banner_first(text) ==
    LET banner == Lines(<<Comment("[OPTIMIZATION: Multiprocessing]")>>)
    IN  IF ~Contains(text, <<"if", "__name__">>)
        THEN Cat(banner, Cat(sample_main, text))
        ELSE Cat(Lines(<<Comment("Note: Please ensure that the multiprocessing block in __main__ is correct.")>>),
                 Cat(banner, text))

optimize_multiprocessing(text) ==
    LET optimized == Cat(Lines(<<Comment("[OPTIMIZATION: Multiprocessing]")>>), text)
    IN  IF ~Contains(text, <<"if", "__name__">>)
        THEN Cat(sample_main, optimized)
        ELSE Cat(Lines(<<Comment("Note: Please ensure that the multiprocessing block in __main__ is correct.")>>),
                 optimized)

optimize_translation(text) ==
    Cat(Cat(Lines(<<Comment("[OPTIMIZATION: Translated to a C/C++ version using pybind11]")>>),
            text),
        <<EmptyLine,
          Comment("Note: For an actual translation, you need to manually configure tools such as Cython or pybind11."),
          EmptyLine>>)

optimize_numba(text) ==
    LET imported == ensure_import(text, <<"from", "numba", "import", "njit">>)
        optimized == add_decorator_to_functions(imported, "njit")
    IN  Cat(Lines(<<Comment("[OPTIMIZATION: Numba JIT applied]")>>), optimized)

optimize_cython(text) ==
    Cat(Cat(Lines(<<Comment("[OPTIMIZATION: Prepared for Cython]"),
                    Comment("cython: language_level=3")>>),
            text),
        <<EmptyLine,
          Comment("Note: To compile with Cython, change the file extension to .pyx and apply further configurations."),
          EmptyLine>>)

optimize_cache(text) ==
    LET imported == ensure_import(text, <<"from", "functools", "import", "lru_cache">>)
        optimized == add_decorator_to_functions(imported, "lru_cache")
    IN  Cat(Lines(<<Comment("[OPTIMIZATION: Caching with lru_cache applied]")>>), optimized)

optimize_vectorize(text) ==
    LET banner == Lines(<<Comment("[OPTIMIZATION: Vectorized operations with NumPy]")>>)
        imported == ensure_import(banner, <<"import", "numpy", "as", "np">>)
    IN  Cat(Cat(Cat(imported, <<EmptyLine, EmptyLine>>), text),
            <<EmptyLine,
              Comment("Note: It is recommended to convert loops into numpy operations for better performance."),
              EmptyLine>>)

\* ------------------------------------------------------------------ main()

RunOption == <<"--run">>

Methods == {<<"1">>, <<"2">>, <<"3">>, <<"4">>, <<"5">>, <<"6">>}

sys_executable == <<"python3">>

\* str.strip()
RECURSIVE strip(_)
strip(s) ==
    IF s # <<>> /\ Head(s) = " " THEN strip(Tail(s))
    ELSE IF s # <<>> /\ s[Len(s)] = " " THEN strip(SubSeq(s, 1, Len(s) - 1))
    ELSE s

\* display_menu(): what the user types, stripped
display_menu(typed) == strip(typed)

\* list.remove(x) for an x the list holds: the first occurrence goes
remove(list, x) ==
    LET i == CHOOSE k \in 1..Len(list) :
                 list[k] = x /\ \A j \in 1..(k - 1) : list[j] # x
    IN  SubSeq(list, 1, i - 1) \o SubSeq(list, i + 1, Len(list))

Extensions == {".py", ".txt"}

\* os.path.splitext
splitext(name) ==
    IF Len(name) > 1 /\ name[Len(name)] \in Extensions
    THEN <<SubSeq(name, 1, Len(name) - 1), <<name[Len(name)]>>>>
    ELSE <<name, <<>>>>

\* sys.exit(1) after print(message)
Exit1(message) ==
    /\ stdout' = Append(stdout, message)
    /\ pc' = "End"
    /\ exited' = TRUE
    /\ status' = 1

\* main() returns
Return ==
    /\ pc' = "End"
    /\ exited' = TRUE
    /\ status' = 0

ResolveInputs ==
    /\ pc = "ResolveInputs"
    /\ \E typed_name \in {<<"a", ".py">>, <<" ", "a", ".py", " ">>, <<"b", ".py">>},
          typed_choice \in {<<"1">>, <<" ", "3", " ">>, <<"8">>, <<>>} :
          IF argv = <<>>
          THEN /\ filename' = strip(typed_name)
               /\ method_choice' = display_menu(typed_choice)
               /\ run_flag' = FALSE
          ELSE LET has_run == \E i \in 1..Len(argv) : argv[i] = RunOption
                   args == IF has_run THEN remove(argv, RunOption) ELSE argv
               IN  /\ filename' = argv[1]
                   /\ run_flag' = has_run
                   /\ method_choice' = IF Len(args) >= 2 THEN args[2]
                                       ELSE display_menu(typed_choice)
    /\ pc' = "Read"
    /\ UNCHANGED <<argv, code, optimized_code, new_filename, disk, writes,
                   children, child_rc, stdout, exited, status, unparse_depth,
                   decorator, previous, applied>>

FileNotFound ==
    /\ pc = "Read"
    /\ filename \notin DOMAIN disk
    /\ Exit1("Error: The specified file does not exist.")
    /\ UNCHANGED <<argv, filename, method_choice, run_flag, code,
                   optimized_code, new_filename, disk, writes, children,
                   child_rc, unparse_depth, decorator, previous, applied>>

ReadError ==
    /\ pc = "Read"
    /\ filename \in DOMAIN disk
    /\ Exit1("Error reading file:")
    /\ UNCHANGED <<argv, filename, method_choice, run_flag, code,
                   optimized_code, new_filename, disk, writes, children,
                   child_rc, unparse_depth, decorator, previous, applied>>

Read ==
    /\ pc = "Read"
    /\ filename \in DOMAIN disk
    /\ code' = disk[filename]
    /\ pc' = "Transform"
    /\ UNCHANGED <<argv, filename, method_choice, run_flag, optimized_code,
                   new_filename, disk, writes, children, child_rc, stdout,
                   exited, status, unparse_depth, decorator, previous, applied>>

\* the if/elif chain of main()
Dispatch(choice, text) ==
    IF choice = <<"1">> THEN optimize_multiprocessing(text)
    ELSE IF choice = <<"2">> THEN optimize_translation(text)
    ELSE IF choice = <<"3">> THEN optimize_numba(text)
    ELSE IF choice = <<"4">> THEN optimize_cython(text)
    ELSE IF choice = <<"5">> THEN optimize_cache(text)
    ELSE optimize_vectorize(text)

Transform ==
    /\ pc = "Transform"
    /\ method_choice \in Methods
    /\ optimized_code' = Dispatch(method_choice, code)
    /\ new_filename' = splitext(filename)[1] \o <<"_FAST">> \o splitext(filename)[2]
    /\ pc' = "Write"
    /\ UNCHANGED <<argv, filename, method_choice, run_flag, code, disk, writes,
                   children, child_rc, stdout, exited, status, unparse_depth,
                   decorator, previous, applied>>

\* mutant: the chain has no else branch and the text goes through unchanged
InvalidSelection_falls_through ==
    /\ pc = "Transform"
    /\ method_choice \notin Methods
    /\ optimized_code' = code
    /\ new_filename' = splitext(filename)[1] \o <<"_FAST">> \o splitext(filename)[2]
    /\ pc' = "Write"
    /\ UNCHANGED <<argv, filename, method_choice, run_flag, code, disk, writes,
                   children, child_rc, stdout, exited, status, unparse_depth,
                   decorator, previous, applied>>

InvalidSelection ==
    /\ pc = "Transform"
    /\ method_choice \notin Methods
    /\ Exit1("Invalid selection!")
    /\ UNCHANGED <<argv, filename, method_choice, run_flag, code,
                   optimized_code, new_filename, disk, writes, children,
                   child_rc, unparse_depth, decorator, previous, applied>>

\* disk with text stored under name
Store(name, text) ==
    [n \in DOMAIN disk \cup {name} |-> IF n = name THEN text ELSE disk[n]]

Write ==
    /\ pc = "Write"
    /\ disk' = Store(new_filename, optimized_code)
    /\ writes' = Append(writes, new_filename)
    /\ stdout' = Append(stdout, "Optimized file saved as")
    /\ IF run_flag
       THEN pc' = "Execute" /\ UNCHANGED <<exited, status>>
       ELSE Return
    /\ UNCHANGED <<argv, filename, method_choice, run_flag, code,
                   optimized_code, new_filename, children, child_rc,
                   unparse_depth, decorator, previous, applied>>

\* mutant: the except branch prints and does not exit
WriteError_continues ==
    /\ pc = "Write"
    /\ stdout' = Append(stdout, "Error saving the optimized file:")
    /\ IF run_flag
       THEN pc' = "Execute" /\ UNCHANGED <<exited, status>>
       ELSE Return
    /\ UNCHANGED <<argv, filename, method_choice, run_flag, code,
                   optimized_code, new_filename, disk, writes, children,
                   child_rc, unparse_depth, decorator, previous, applied>>

\* open() raises and leaves the disk alone, or f.write() raises after open()
\* created or emptied the file
WriteError ==
    /\ pc = "Write"
    /\ \E opened \in BOOLEAN :
          IF opened
          THEN /\ disk' = Store(new_filename, EmptyText)
               /\ writes' = Append(writes, new_filename)
          ELSE UNCHANGED <<disk, writes>>
    /\ Exit1("Error saving the optimized file:")
    /\ UNCHANGED <<argv, filename, method_choice, run_flag, code,
                   optimized_code, new_filename, children, child_rc,
                   unparse_depth, decorator, previous, applied>>

\* the exit codes a child can end with; a negative one is a signal
ReturnCodes == {-9, 0, 1, 2, 3}

\* subprocess.run([sys.executable, new_filename], check=True) returns
Execute ==
    /\ pc = "Execute"
    /\ children' = Append(children, <<sys_executable, new_filename>>)
    /\ child_rc' = 0
    /\ stdout' = Append(stdout, "Executing the optimized file...")
    /\ Return
    /\ UNCHANGED <<argv, filename, method_choice, run_flag, code,
                   optimized_code, new_filename, disk, writes, unparse_depth,
                   decorator, previous, applied>>

\* mutant: subprocess.run without check=True: the exit code is dropped
ExecuteFails_unchecked ==
    /\ pc = "Execute"
    /\ children' = Append(children, <<sys_executable, new_filename>>)
    /\ \E rc \in ReturnCodes \ {0} : child_rc' = rc
    /\ stdout' = Append(stdout, "Executing the optimized file...")
    /\ Return
    /\ UNCHANGED <<argv, filename, method_choice, run_flag, code,
                   optimized_code, new_filename, disk, writes, unparse_depth,
                   decorator, previous, applied>>

\* subprocess.run(..., check=True) raises CalledProcessError
ExecuteFails ==
    /\ pc = "Execute"
    /\ children' = Append(children, <<sys_executable, new_filename>>)
    /\ \E rc \in ReturnCodes \ {0} : child_rc' = rc
    /\ Exit1("Error running the optimized file:")
    /\ UNCHANGED <<argv, filename, method_choice, run_flag, code,
                   optimized_code, new_filename, disk, writes, unparse_depth,
                   decorator, previous, applied>>

\* ------------------------------------------------------ the driver's inputs

RECURSIVE SeqsUpTo(_, _)
\* the sequences over S of length n at most
SeqsUpTo(S, n) ==
    IF n = 0 THEN {<<>>}
    ELSE LET shorter == SeqsUpTo(S, n - 1)
         IN  shorter \cup {Append(s, x) : s \in shorter, x \in S}

Arguments ==
    {<<"a", ".py">>, <<"b", ".py">>, RunOption,
     <<"1">>, <<"2">>, <<"3">>, <<"4">>, <<"5">>, <<"6">>, <<"7">>}

InputFile == <<"a", ".py">>

\* the files main() is run on
Sources ==
    { \* def f(): pass
      Lines(<<Line(0, <<"def", "f", "():">>), Line(4, <<"pass">>)>>),
      \* a definition without a body: a syntax error
      Lines(<<Line(0, <<"def", "f", "():">>)>>),
      \* an unbalanced parenthesis, no final newline
      <<Line(0, <<"x">>), Line(0, <<"(">>)>>,
      \* nested definitions, a comment and a __main__ block
      Lines(<<Line(0, <<"@", "other">>),
              Line(0, <<"def", "f", "():">>),
              Line(2, <<"async", "def", "g", "():">>),
              Line(4, <<"def", "h", "():">>),
              Line(6, <<"pass", "#", "c">>),
              Line(0, <<"if", "__name__", "==", "'__main__'", ":">>),
              Line(2, <<"f">>)>>),
      \* already imported and decorated
      Lines(<<Line(0, <<"from", "numba", "import", "njit">>),
              Line(0, <<"@", "njit">>),
              Line(0, <<"def", "f", "():">>),
              Line(1, <<"x">>)>>),
      \* no definitions
      Lines(<<Line(0, <<"x">>)>>),
      EmptyText }

UnparseDepths == {1, 100}

Init ==
    /\ pc = "ResolveInputs"
    /\ argv \in SeqsUpTo(Arguments, MaxArgs)
    /\ filename = <<>>
    /\ method_choice = <<>>
    /\ run_flag = FALSE
    /\ code = EmptyText
    /\ optimized_code = EmptyText
    /\ new_filename = <<>>
    /\ \E source \in Sources : disk = [n \in {InputFile} |-> source]
    /\ writes = <<>>
    /\ children = <<>>
    /\ child_rc = 0
    /\ stdout = <<>>
    /\ exited = FALSE
    /\ status = 0
    /\ unparse_depth \in UnparseDepths
    /\ decorator = ""
    /\ previous = EmptyText
    /\ applied = 0

Next ==
    \/ ResolveInputs
    \/ FileNotFound
    \/ ReadError
    \/ Read
    \/ Transform
    \/ InvalidSelection
    \/ Write
    \/ WriteError
    \/ Execute
    \/ ExecuteFails

Spec == Init /\ [][Next]_vars

\* ------------------------------- the transformer applied to bounded sources

Texts(alphabet, n) == {Lines(ls) : ls \in SeqsUpTo(alphabet, n)}

DecoratorNames == {"njit", "lru_cache"}

\* the lines the sources of the transformer are made of; their indentation is
\* not the four blanks ast.unparse writes
SourceLines ==
    {Line(0, <<"def", "f", "():">>),
     Line(0, <<"async", "def", "f", "():">>),
     Line(0, <<"@", "njit">>),
     Line(0, <<"@", "other">>),
     Line(0, <<"@", "njit", "()">>),
     Line(0, <<"x">>),
     Line(0, <<"#", "c">>),
     Line(1, <<"def", "g", "():">>),
     Line(1, <<"x">>),
     Line(2, <<"x">>)}

NestingLimits == {2, 100}

Idle ==
    /\ pc = "Library"
    /\ argv = <<>>
    /\ filename = <<>>
    /\ method_choice = <<>>
    /\ run_flag = FALSE
    /\ new_filename = <<>>
    /\ disk = <<>>
    /\ writes = <<>>
    /\ children = <<>>
    /\ child_rc = 0
    /\ stdout = <<>>
    /\ exited = FALSE
    /\ status = 0

InitDec ==
    /\ Idle
    /\ code \in Texts(SourceLines, MaxLines)
    /\ optimized_code = code
    /\ previous = code
    /\ applied = 0
    /\ decorator \in DecoratorNames
    /\ unparse_depth \in NestingLimits

\* optimized = add_decorator_to_functions(optimized, decorator)
Apply ==
    /\ applied < MaxApplied
    /\ previous' = optimized_code
    /\ optimized_code' = add_decorator_to_functions(optimized_code, decorator)
    /\ applied' = applied + 1
    /\ UNCHANGED <<pc, argv, filename, method_choice, run_flag, code,
                   new_filename, disk, writes, children, child_rc, stdout,
                   exited, status, unparse_depth, decorator>>

NextDec == Apply

SpecDec == InitDec /\ [][NextDec]_vars

\* --------------------- optimize_multiprocessing applied to bounded sources

MainGuard == Line(0, <<"if", "__name__", "==", "'__main__'", ":">>)

GuardLines ==
    {MainGuard,
     Line(0, <<"if", "x", ":">>),
     Line(0, <<"#", "if", "__name__">>),
     Line(0, <<"if">>),
     Line(0, <<"__name__">>),
     Line(0, <<"elif", "__name__", ":">>),
     Line(0, <<"def", "main", "():">>),
     Line(4, <<"x">>)}

InitMP ==
    /\ Idle
    /\ \E text \in Texts(GuardLines, MaxLines) :
          \* with and without the final newline
          code \in {text, SubSeq(text, 1, Len(text) - 1) \o
                          (IF Len(text) = 1 THEN EmptyText ELSE <<>>)}
    /\ optimized_code = EmptyText
    /\ previous = EmptyText
    /\ applied = 0
    /\ decorator = ""
    /\ unparse_depth = 100

\* optimized = optimize_multiprocessing(code)
ApplyMP ==
    /\ applied = 0
    /\ optimized_code' = optimize_multiprocessing(code)
    /\ applied' = 1
    /\ UNCHANGED <<pc, argv, filename, method_choice, run_flag, code,
                   new_filename, disk, writes, children, child_rc, stdout,
                   exited, status, unparse_depth, decorator, previous>>

NextMP == ApplyMP

SpecMP == InitMP /\ [][NextMP]_vars

\* ============================================================== properties

NonRun(args) == SelectSeq(args, LAMBDA a : a # RunOption)

RunCount(args) == Cardinality({i \in 1..Len(args) : args[i] = RunOption})

\* C1: with the name of a file, an optional mode and one --run at any index, main()
\* takes the first argument that is not --run as the filename, the second as
\* the mode, and sets the run flag.
C1_RunAnywhere ==
    (/\ pc # "ResolveInputs"
     /\ RunCount(argv) = 1
     /\ Len(NonRun(argv)) \in {1, 2}
     /\ NonRun(argv)[1] = InputFile)
    => /\ filename = NonRun(argv)[1]
       /\ run_flag
       /\ Len(NonRun(argv)) = 2 => method_choice = NonRun(argv)[2]

\* the run was given --run and saved the output file
RanSaved ==
    /\ exited
    /\ run_flag
    /\ \E i \in 1..Len(stdout) : stdout[i] = "Optimized file saved as"

\* C2 as stated: a run with --run that saved its output spawns one child,
\* the saved file under the current interpreter, and ends with the child's
\* exit code.
C2_ExitCodeOfChild ==
    RanSaved
    => /\ children = <<(<<sys_executable, new_filename>>)>>
       /\ status = child_rc

\* C2 as amended: such a run spawns exactly one child, the saved file under
\* the current interpreter, and ends with status 0 when the child's exit code
\* is 0 and with status 1 for every other exit code.
C2_ExitOneOnChildFailure ==
    RanSaved
    => /\ children = <<(<<sys_executable, new_filename>>)>>
       /\ disk[new_filename] = optimized_code
       /\ status = IF child_rc = 0 THEN 0 ELSE 1

C2_Witness ==
    /\ RanSaved
    /\ child_rc = 2
    /\ status = 1
    /\ Len(children) = 1

\* C3: a mode that is none of "1".."6" ends the run with an error message and
\* a non-zero status before the write step: no file is opened for writing,
\* the disk holds what it held, and no child is spawned.
C3_InvalidMode ==
    (pc # "ResolveInputs" /\ method_choice \notin Methods)
    => /\ pc \in {"Read", "Transform", "End"}
       /\ writes = <<>>
       /\ DOMAIN disk = {InputFile}
       /\ children = <<>>
       /\ pc = "End" => /\ exited
                        /\ status # 0
                        /\ stdout # <<>>

C3_Witness ==
    /\ pc = "End"
    /\ run_flag
    /\ method_choice = <<"7">>
    /\ stdout = <<"Invalid selection!">>
    /\ status = 1

ErrorMessages ==
    {"Error: The specified file does not exist.", "Error reading file:",
     "Invalid selection!", "Error saving the optimized file:",
     "Error running the optimized file:"}

\* the stage after a stage that did not fail
NextStage(stage) ==
    IF stage = "ResolveInputs" THEN "Read"
    ELSE IF stage = "Read" THEN "Transform"
    ELSE IF stage = "Transform" THEN "Write"
    ELSE IF stage = "Write" /\ run_flag THEN "Execute"
    ELSE "End"

FallsBack(text) ==
    LET parsed == ast_parse(text)
    IN  \/ ~parsed.ok
        \/ Depth(parsed.tree) > unparse_depth

Imported(choice, text) ==
    IF choice = <<"3">>
    THEN ensure_import(text, <<"from", "numba", "import", "njit">>)
    ELSE ensure_import(text, <<"from", "functools", "import", "lru_cache">>)

FunctionTypes == {"FunctionDef", "AsyncFunctionDef"}

RECURSIVE FunctionsIn(_)
\* the function definitions of a list of statements, outer before inner
FunctionsIn(body) ==
    IF body = <<>> THEN <<>>
    ELSE (IF Head(body).type \in FunctionTypes THEN <<Head(body)>> ELSE <<>>)
         \o FunctionsIn(Head(body).body) \o FunctionsIn(Tail(body))

Functions(text) ==
    LET parsed == ast_parse(text)
    IN  IF parsed.ok THEN FunctionsIn(parsed.tree.body) ELSE <<>>

BareCount(node, id) ==
    Cardinality({i \in 1..Len(node.decorator_list) :
                    node.decorator_list[i] = Name(id)})

\* the text given to the last application parsed and was regenerated
Regenerated ==
    /\ applied >= 1
    /\ LET parsed == ast_parse(previous)
       IN  parsed.ok /\ Depth(parsed.tree) <= unparse_depth

\* the definitions before and after the last application
Old == Functions(previous)

New == Functions(optimized_code)

\* the definitions of the source
Source == Functions(code)

\* C5: after the transformer ran on a parseable source, every function
\* definition of the result, def or async def, at any nesting level, carries
\* the bare-name decorator.
C5_EveryFunctionDecorated ==
    Regenerated
    => LET new == New
       IN  \A i \in 1..Len(new) : BareCount(new[i], decorator) >= 1

\* the application lengthened the decorator list of a definition that had
\* decorators
Added(old, new) ==
    /\ old.decorator_list # <<>>
    /\ Len(new.decorator_list) > Len(old.decorator_list)

\* C6 as stated: a decorator added to a definition that has decorators comes
\* last in the decorator list (closest to the def line), after the existing
\* decorators in their order.
C6_AddedInnermost ==
    Regenerated
    => LET old == Old
           new == New
       IN  /\ Len(new) = Len(old)
           /\ \A i \in 1..Len(new) :
                 Added(old[i], new[i])
                 => new[i].decorator_list
                       = old[i].decorator_list \o <<Name(decorator)>>

\* C6 as amended: a decorator added to a definition that has decorators comes
\* first in the decorator list (the top line of the stack, the outermost
\* decorator, applied after all the others), before the existing decorators
\* in their order.
C6_AddedOutermost ==
    Regenerated
    => LET old == Old
           new == New
       IN  /\ Len(new) = Len(old)
           /\ \A i \in 1..Len(new) :
                 Added(old[i], new[i])
                 => new[i].decorator_list
                       = <<Name(decorator)>> \o old[i].decorator_list

C6_Witness ==
    /\ Regenerated
    /\ \E i \in 1..Len(New) :
          /\ Len(Old[i].decorator_list) = 2
          /\ Old[i].decorator_list[1] # Old[i].decorator_list[2]
          /\ Added(Old[i], New[i])
          /\ New[i].decorator_list[1] = Name(decorator)

\* C7 as stated: the second application changes nothing, and no definition
\* of the result of a parseable source has two bare-name decorators D.
C7_NeverTwo ==
    /\ applied >= 2 => optimized_code = previous
    /\ (applied >= 1 /\ ast_parse(code).ok)
       => LET new == New
          IN  \A i \in 1..Len(new) : BareCount(new[i], decorator) <= 1

\* C7 as amended: the second application changes nothing, and the transformer
\* never adds a second bare-name decorator D: a definition of the result has
\* two or more only if the source had as many on it.
C7_Idempotent ==
    /\ applied >= 2 => optimized_code = previous
    /\ (applied >= 1 /\ ast_parse(code).ok)
       => LET source == Source
              new == New
          IN  /\ Len(new) = Len(source)
              /\ \A i \in 1..Len(new) :
                    BareCount(new[i], decorator) > 1
                    => BareCount(new[i], decorator)
                          = BareCount(source[i], decorator)

C7_Witness ==
    /\ applied = 2
    /\ optimized_code = previous
    /\ optimized_code # code
    /\ \E i \in 1..Len(New) :
          /\ BareCount(Source[i], decorator) = 0
          /\ \E k \in 1..Len(Source[i].decorator_list) :
                Source[i].decorator_list[k] = Call(decorator)
          /\ BareCount(New[i], decorator) = 1

\* the tokens of the lines of a text, without the blank lines and the lines
\* that are the bare decorator
Words(text, id) ==
    LET Kept(l) == l.toks # <<>> /\ l.toks # <<"@", id>>
        kept == SelectSeq(text, Kept)
    IN  [i \in 1..Len(kept) |-> kept[i].toks]

RECURSIVE Undecorated(_, _)
\* a tree without the bare decorators of that name
Undecorated(node, id) ==
    LET IsOther(dec) == dec # Name(id)
    IN  [node EXCEPT
            !.decorator_list = SelectSeq(@, IsOther),
            !.body = [i \in 1..Len(node.body) |-> Undecorated(node.body[i], id)]]

\* C10 as stated: layout aside, the result of a parseable source is the
\* source with bare-decorator lines added and nothing else changed.
C10_OnlyDecoratorLines ==
    (applied >= 1 /\ ast_parse(previous).ok)
    => Words(optimized_code, decorator) = Words(previous, decorator)

\* C10 as amended: the result of a parseable source parses to the tree of the
\* source with nothing changed but the bare decorator put in front of
\* decorator lists: same statements, same definitions with the same names and
\* bodies, every decorator kept in its order.  (The text is regenerated from
\* the tree: comments are dropped and the layout is normalised.)
C10_SameTree ==
    (applied >= 1 /\ ast_parse(previous).ok)
    => LET before == ast_parse(previous)
           after == ast_parse(optimized_code)
           old == FunctionsIn(before.tree.body)
           new == FunctionsIn(after.tree.body)
       IN  /\ after.ok
           /\ Undecorated(after.tree, decorator)
                 = Undecorated(before.tree, decorator)
           /\ Len(new) = Len(old)
           /\ \A i \in 1..Len(new) :
                 new[i].decorator_list \in
                     {old[i].decorator_list,
                      <<Name(decorator)>> \o old[i].decorator_list}

C10_Witness ==
    /\ applied = 1
    /\ Regenerated
    /\ Words(optimized_code, decorator) # Words(previous, decorator)
    /\ \E i \in 1..Len(New) :
          /\ Old[i].decorator_list # <<>>
          /\ New[i].decorator_list # Old[i].decorator_list

Banner == Comment("[OPTIMIZATION: Multiprocessing]")

DefMain == Line(0, <<"def", "main", "():">>)

Count(text, line) == Cardinality({i \in 1..Len(text) : text[i] = line})

HasGuard == Contains(code, <<"if", "__name__">>)

\* nothing is synthesized for a source that holds "if __name__"
NothingSynthesized ==
    /\ Count(optimized_code, MainGuard) = Count(code, MainGuard)
    /\ Count(optimized_code, DefMain) = Count(code, DefMain)
    /\ Len(optimized_code) = Len(code) + 2

\* C9 as stated: for a source without "if __name__" the output holds the
\* banner line, after it a def main() line and after that the __main__ guard;
\* for a source with it nothing is synthesized.
C9_BannerBeforeBlock ==
    applied = 1
    => IF ~HasGuard
       THEN \E b, m, g \in 1..Len(optimized_code) :
               /\ b < m /\ m < g
               /\ optimized_code[b] = Banner
               /\ optimized_code[m] = DefMain
               /\ optimized_code[g] = MainGuard
       ELSE NothingSynthesized

\* C9 as amended: for a source without "if __name__" the output starts with
\* the synthesized block (def main() on line 1, the __main__ guard on line 5,
\* ten lines in all), the banner line follows the block on line 11, and the
\* source follows the banner; for a source with it nothing is synthesized.
C9_BlockBeforeBanner ==
    applied = 1
    => IF ~HasGuard
       THEN /\ optimized_code[1] = DefMain
            /\ optimized_code[5] = MainGuard
            /\ Count(optimized_code, MainGuard) = 1
            /\ \A i \in 1..10 : optimized_code[i] # Banner
            /\ optimized_code[11] = Banner
            /\ SubSeq(optimized_code, 12, Len(optimized_code)) = code
       ELSE NothingSynthesized

C9_Witness ==
    /\ applied = 1
    /\ ~HasGuard
    /\ \E i, j \in 1..Len(code) :
          code[i].toks = <<"if">> /\ code[j].toks = <<"__name__">> /\ j = i + 1
    /\ optimized_code[11] = Banner

====
